---------------------------- MODULE Spec2Model ----------------------------
(***************************************************************************)
(* A model of ape_beacon.provider.BeaconProvider: a read-only provider     *)
(* that forwards queries to a web3.py Beacon client handle (_beacon) and   *)
(* unwraps its dictionary responses.                                       *)
(*                                                                         *)
(* Python values are records tagged with their type; a Python str that    *)
(* the code inspects (a block id, a network name) is a sequence of         *)
(* characters.  An operation's outcome is the value it returns or the      *)
(* exception it raises.  Every operation records in `last` what it was     *)
(* called with, what the upstream answered, the calls it made on its       *)
(* collaborators (in order) and its outcome.                               *)
(***************************************************************************)
EXTENDS Integers, Sequences, FiniteSets, TLC

VARIABLES
    network_name,       \* self.network.name, fixed at construction
    _beacon,            \* self._beacon: unset, None or the client handle
    _client_version,    \* self._client_version: None or a version string
    cached,             \* instance __dict__ entries written by cached_property
    provider_settings,  \* self.provider_settings: a dict
    last                \* the most recent operation: op, arg, ans, calls, out

vars == <<network_name, _beacon, _client_version, cached, provider_settings, last>>

-----------------------------------------------------------------------------
(* Bounds of the model *)

\* longest str block id enumerated
MaxLen == 2

-----------------------------------------------------------------------------
(* Python values *)

\* Every value has the same shape, so that any two can be compared:
\* kind is the Python type (or the exception class of a raised outcome),
\* n an int or bool payload, s a str payload (a sequence of characters or
\* one opaque token), akind the type of a raised exception's argument.
V(kind, akind, n, s) == [kind |-> kind, akind |-> akind, n |-> n, s |-> s]

None == V("None", "", 0, << >>)
PyInt(n) == V("int", "", n, << >>)
PyStr(s) == V("str", "", 0, s)
PyBool(b) == V("bool", "", IF b THEN 1 ELSE 0, << >>)
EmptyStr == PyStr(<< >>)
\* the exception exc(arg), raised
Raise(exc, arg) == V(exc, arg.kind, arg.n, arg.s)
Exceptions ==
    {"ProviderNotConnectedError", "APINotImplementedError", "BlockNotFoundError",
     "ValidatorNotFoundError", "ValueError", "HTTPError", "ConnectionError",
     "AttributeError", "TypeError"}
IsRaise(v) == v.kind \in Exceptions
\* a missing entry of the instance __dict__
Miss == V("miss", "", 0, << >>)
\* _beacon before anything assigned it: line 24 annotates it without a value
Unset == V("unset", "", 0, << >>)
\* what reading self._beacon raises while it is unset
NoAttribute == Raise("AttributeError", V("msg", "", 0, <<"_beacon">>))

\* The characters a str block id is drawn from: a decimal digit, a letter,
\* and SUPERSCRIPT TWO (U+00B2, written "^2"), for which str.isnumeric() is
\* True although int() rejects it.
DecimalChars == {"0", "1", "2", "3", "4", "5", "6", "7", "8", "9"}
Sup2 == "^2"
Alphabet == {"1", "h", Sup2}

StrsOfLen(n) == [1..n -> Alphabet]
Strs == UNION {StrsOfLen(n) : n \in 0..MaxLen}

DigitChar(d) ==
    CASE d = 0 -> "0" [] d = 1 -> "1" [] d = 2 -> "2" [] d = 3 -> "3"
      [] d = 4 -> "4" [] d = 5 -> "5" [] d = 6 -> "6" [] d = 7 -> "7"
      [] d = 8 -> "8" [] d = 9 -> "9"

DigitVal(c) ==
    CASE c = "0" -> 0 [] c = "1" -> 1 [] c = "2" -> 2 [] c = "3" -> 3
      [] c = "4" -> 4 [] c = "5" -> 5 [] c = "6" -> 6 [] c = "7" -> 7
      [] c = "8" -> 8 [] c = "9" -> 9

\* str.isnumeric(): non-empty and every character numeric
isnumeric(s) == Len(s) > 0 /\ \A i \in 1..Len(s) : s[i] \in DecimalChars \cup {Sup2}

\* what int(s) accepts among the strings of the model: decimal digits only
IntParses(s) == Len(s) > 0 /\ \A i \in 1..Len(s) : s[i] \in DecimalChars

RECURSIVE IntOfStr(_)
IntOfStr(s) ==
    IF Len(s) = 0 THEN 0
    ELSE 10 * IntOfStr(SubSeq(s, 1, Len(s) - 1)) + DigitVal(s[Len(s)])

RECURSIVE StrOfInt(_)
StrOfInt(n) ==
    IF n < 10 THEN <<DigitChar(n)>>
    ELSE Append(StrOfInt(n \div 10), DigitChar(n % 10))

\* str(x) for an int or a str
str(x) == IF x.kind = "int" THEN PyStr(StrOfInt(x.n)) ELSE x

-----------------------------------------------------------------------------
(* Upstream responses: the dictionaries the Beacon client returns *)

EmptyDict == [k \in {} |-> None]

\* a dict held as a value inside a response
Dict(items) == [kind |-> "dict", items |-> items]

\* "empty": {}   "data_none": {"data": None}   "no_field": {"data": {"other": v}}
\* "full": {"data": {field: v}}   ("http_error" is no response: the client raised)
Resp(shape, field, v) ==
    CASE shape = "empty" -> EmptyDict
      [] shape = "data_none" -> [data |-> None]
      [] shape = "no_field" -> [data |-> Dict([k \in {"other"} |-> v])]
      [] shape = "full" -> [data |-> Dict([k \in {field} |-> v])]

Has(d, k) == k \in DOMAIN d

\* the tests `"data" in resp` and then `field in resp["data"]`, in that order:
\* "missing" when either key is absent, "present" when both are there, and
\* "TypeError" when resp["data"] is None, on which `in` raises
data_field(resp, field) ==
    IF ~Has(resp, "data") THEN "missing"
    ELSE IF resp.data.kind # "dict" THEN "TypeError"
    ELSE IF Has(resp.data.items, field) THEN "present"
    ELSE "missing"

Call(fn, arg) == [fn |-> fn, arg |-> arg]

-----------------------------------------------------------------------------
(* The collaborators: the network, the Beacon client, the ecosystem *)

\* network names as str: "main" (live), "local" (LOCAL_NETWORK_NAME), "adhoc",
\* "main-fork", and "fork" (live: it does not end with "-fork")
NetMain == <<"m", "a", "i", "n">>
NetLocal == <<"l", "o", "c", "a", "l">>
NetAdhoc == <<"a", "d", "h", "o", "c">>
NetMainFork == <<"m", "a", "i", "n", "-", "f", "o", "r", "k">>
NetFork == <<"f", "o", "r", "k">>
NetworkNames == {NetMain, NetLocal, NetAdhoc, NetMainFork, NetFork}

LOCAL_NETWORK_NAME == NetLocal
ForkSuffix == <<"-", "f", "o", "r", "k">>

\* str.endswith
endswith(s, suffix) ==
    /\ Len(s) >= Len(suffix)
    /\ SubSeq(s, Len(s) - Len(suffix) + 1, Len(s)) = suffix

\* self.network.chain_id of a live network: its configured chain ID
network_chain_id(name) == IF name = NetMain THEN PyInt(1) ELSE PyInt(5)

\* the clients a connect can produce, by URI, and the URI used without a setting
URIs == {"u1", "u2", "u3"}
DefaultURI == "u1"
Beacon(uri) == V("Beacon", "", 0, <<uri>>)

\* what Beacon(uri).get_version() answers: u3 answers without a version
VersionShape(uri) == IF uri = "u3" THEN "no_field" ELSE "full"
VersionOf(uri) == IF uri = "u2" THEN PyStr(<<"v", "2">>) ELSE PyStr(<<"v", "1">>)

\* the values upstream answers are drawn from
ChainIdVals == {PyInt(1), PyInt(7)}
BalanceVals == {PyInt(0), PyInt(32)}
BlockVals == {V("dict", "", 0, <<"m1">>)}
HealthStatuses == {200, 206, 503}
Addresses == {PyStr(<<"0", "x", "a">>), PyInt(7)}
\* the int block ids: 0 and every int one of the strings is the decimal of
BlockInts == {0} \cup {IntOfStr(s) : s \in {x \in Strs : IntParses(x)}}
BlockIDs == {PyInt(n) : n \in BlockInts} \cup {PyStr(s) : s \in Strs}
\* an upstream answer: its shape and, where the shape carries one, a value
Answers(vals) ==
    {[shape |-> sh, v |-> None] : sh \in {"http_error", "empty", "data_none", "no_field"}}
        \cup {[shape |-> "full", v |-> x] : x \in vals}
NoAnswer == [shape |-> "none", v |-> None]

\* self.network.ecosystem.decode_block(block_data)
decode_block(block_data) == V("BlockAPI", "", 0, block_data.s)

-----------------------------------------------------------------------------
(* BeaconProvider *)

Result(out, calls) == [out |-> out, calls |-> calls]

\* the beacon property: the handle, or ProviderNotConnectedError
beacon(b) ==
    IF b.kind = "unset" THEN NoAttribute
    ELSE IF b.kind = "None" THEN Raise("ProviderNotConnectedError", None)
    ELSE b

\* cached_property that never stores what the getter returned
cached_property_recompute(entry, computed) ==
    [out |-> computed.out, calls |-> computed.calls, entry |-> Miss, ran |-> TRUE]

\* the wrapper functools.cached_property puts around a getter: a stored entry
\* is returned without running the getter; a returned value is stored, an
\* exception is not
cached_property(entry, computed) ==
    IF entry.kind # "miss"
    THEN [out |-> entry, calls |-> << >>, entry |-> entry, ran |-> FALSE]
    ELSE [out |-> computed.out, calls |-> computed.calls,
          entry |-> IF IsRaise(computed.out) THEN Miss ELSE computed.out,
          ran |-> TRUE]

\* the getter of client_version; cv is self._client_version
client_version_getter(b, cv, http_ok) ==
    IF b.kind = "unset" THEN [out |-> NoAttribute, calls |-> << >>, cv |-> cv]
    ELSE IF b.kind = "None" THEN [out |-> EmptyStr, calls |-> << >>, cv |-> cv]
    ELSE IF cv.kind = "None"
    THEN LET c == <<Call("get_version", None)>> IN
         IF ~http_ok THEN [out |-> Raise("HTTPError", None), calls |-> c, cv |-> cv]
         ELSE LET resp == Resp(VersionShape(b.s[1]), "version", VersionOf(b.s[1]))
                  chk == data_field(resp, "version")
              IN
              IF chk = "TypeError"
              THEN [out |-> Raise("TypeError", None), calls |-> c, cv |-> cv]
              ELSE IF chk = "missing"
              THEN [out |-> EmptyStr, calls |-> c, cv |-> cv]
              ELSE [out |-> resp.data.items.version, calls |-> c,
                    cv |-> resp.data.items.version]
    ELSE [out |-> cv, calls |-> << >>, cv |-> cv]

\* gas_price answering a price
gas_price_zero == PyInt(0)

\* the messages of the unsupported operations
NotImplemented(name) == Raise("APINotImplementedError", V("msg", "", 0, <<name>>))
base_fee == NotImplemented("base_fee is not implemented by this provider.")
max_gas == NotImplemented("max_gas is not implemented by this provider.")
supports_tracing == NotImplemented("supports_tracing is not implemented by this provider.")
estimate_gas_cost == NotImplemented("estimate_gas_cost is not implemented by this provider.")
gas_price == NotImplemented("gas_price is not implemented by this provider.")
priority_fee == NotImplemented("priority_fee is not implemented by this provider.")
get_nonce == NotImplemented("get_nonce is not implemented by this provider.")
UnsupportedOps ==
    {"base_fee", "max_gas", "supports_tracing", "estimate_gas_cost", "gas_price",
     "priority_fee", "get_nonce"}
unsupported(op) ==
    CASE op = "base_fee" -> Result(base_fee, << >>)
      [] op = "max_gas" -> Result(max_gas, << >>)
      [] op = "supports_tracing" -> Result(supports_tracing, << >>)
      [] op = "estimate_gas_cost" -> Result(estimate_gas_cost, << >>)
      [] op = "gas_price" -> Result(gas_price, << >>)
      [] op = "priority_fee" -> Result(priority_fee, << >>)
      [] op = "get_nonce" -> Result(get_nonce, << >>)

\* is_connected; health is the status code get_health answers, or 0 when the
\* request itself fails
is_connected(b, health) ==
    IF b.kind = "unset" THEN Result(NoAttribute, << >>)
    ELSE IF b.kind = "None" THEN Result(PyBool(FALSE), << >>)
    ELSE IF health = 0
    THEN Result(Raise("ConnectionError", None), <<Call("get_health", None)>>)
    ELSE Result(PyBool(health = 200), <<Call("get_health", None)>>)

\* is_live without the "-fork" test
is_live_forks_too(name) == name \notin {NetAdhoc, LOCAL_NETWORK_NAME}

\* whether chain_id takes the network's configured chain ID as its default
is_live(name) ==
    /\ name \notin {NetAdhoc, LOCAL_NETWORK_NAME}
    /\ ~endswith(name, ForkSuffix)

\* the getter of chain_id
chain_id_getter(name, b, ans) ==
    LET default_chain_id == IF is_live(name) THEN network_chain_id(name) ELSE None
        h == beacon(b)
        c == <<Call("get_deposit_contract", None)>>
    IN  IF h.kind = "AttributeError" THEN Result(h, << >>)
        ELSE IF h.kind = "ProviderNotConnectedError"
        THEN IF default_chain_id.kind # "None" THEN Result(default_chain_id, << >>)
             ELSE Result(h, << >>)
        ELSE IF ans.shape = "http_error" THEN Result(Raise("HTTPError", None), c)
        ELSE LET resp == Resp(ans.shape, "chain_id", ans.v)
                 chk == data_field(resp, "chain_id")
             IN
             IF chk = "TypeError" THEN Result(Raise("TypeError", None), c)
             ELSE IF chk = "present" THEN Result(resp.data.items.chain_id, c)
             ELSE IF default_chain_id.kind # "None" THEN Result(default_chain_id, c)
             ELSE Result(Raise("ProviderNotConnectedError", None), c)

\* get_block without the str-to-int step
normalize_block_id_skipped(block_id) == block_id

\* get_block, lines 127-128: a numeric str becomes an int; int() may raise
normalize_block_id(block_id) ==
    IF block_id.kind = "str" /\ isnumeric(block_id.s)
    THEN IF IntParses(block_id.s) THEN PyInt(IntOfStr(block_id.s))
         ELSE Raise("ValueError", block_id)
    ELSE block_id

\* get_block, line 131: whether the response holds data.message
has_message(resp) == data_field(resp, "message")

\* get_block, line 132
block_not_found(id) == Raise("BlockNotFoundError", id)

get_block(b, block_id, ans) ==
    LET id == normalize_block_id(block_id)
        h == beacon(b)
        c == Call("get_block", str(id))
    IN  IF IsRaise(id) THEN Result(id, << >>)
        ELSE IF IsRaise(h) THEN Result(h, << >>)
        ELSE IF ans.shape = "http_error" THEN Result(Raise("HTTPError", None), <<c>>)
        ELSE LET resp == Resp(ans.shape, "message", ans.v)
                 chk == has_message(resp)
             IN
             IF chk = "TypeError" THEN Result(Raise("TypeError", None), <<c>>)
             ELSE IF chk = "missing" THEN Result(block_not_found(id), <<c>>)
             ELSE Result(decode_block(resp.data.items.message),
                         <<c, Call("decode_block", resp.data.items.message)>>)

\* get_balance, line 145: whether the response holds data.balance
has_balance(resp) == data_field(resp, "balance")

\* get_balance, lines 148-149: the balance as upstream gave it
balance_of(resp) == resp.data.items.balance

get_balance(b, address, ans) ==
    LET h == beacon(b)
        c == <<Call("get_validator", address)>>
    IN  IF IsRaise(h) THEN Result(h, << >>)
        ELSE IF ans.shape = "http_error" THEN Result(Raise("HTTPError", None), c)
        ELSE LET resp == Resp(ans.shape, "balance", ans.v)
                 chk == has_balance(resp)
             IN
             IF chk = "TypeError" THEN Result(Raise("TypeError", None), c)
             ELSE IF chk = "missing"
             THEN Result(Raise("ValidatorNotFoundError", address), c)
             ELSE Result(balance_of(resp), c)

-----------------------------------------------------------------------------
(* The connection lifecycle *)

\* the provider settings: a dict with at most the key "uri"
NoSettings == [k \in {} |-> DefaultURI]
SettingsDicts == {NoSettings} \cup {[k \in {"uri"} |-> u] : u \in URIs}
SettingsVal(d) == V("dict", "", 0, IF Has(d, "uri") THEN <<d["uri"]>> ELSE << >>)

\* dict.update
dict_update(d, new) ==
    [k \in DOMAIN d \cup DOMAIN new |-> IF k \in DOMAIN new THEN new[k] ELSE d[k]]

\* connect(): acquires a client for the configured URI and resets
\* _client_version; a failing connect raises and acquires nothing
connect(b, cv, settings, ok) ==
    IF ok
    THEN [b |-> Beacon(IF Has(settings, "uri") THEN settings["uri"] ELSE DefaultURI),
          cv |-> None, out |-> None]
    ELSE [b |-> b, cv |-> cv, out |-> Raise("ConnectionError", None)]

\* disconnect(): drops the handle and resets _client_version
disconnect(b, cv) == [b |-> None, cv |-> None, out |-> None]

\* update_settings that connects before it merges the new settings
update_settings_connect_first(b, cv, settings, new_settings, ok) ==
    LET d == disconnect(b, cv)
        c == connect(d.b, d.cv, settings, ok)
        merged == dict_update(settings, new_settings)
    IN  [b |-> c.b, cv |-> c.cv, settings |-> merged, out |-> c.out,
         calls |-> <<Call("disconnect", None),
                     Call("provider_settings.update", SettingsVal(new_settings)),
                     Call("connect", None)>>]

update_settings(b, cv, settings, new_settings, ok) ==
    LET d == disconnect(b, cv)
        merged == dict_update(settings, new_settings)
        c == connect(d.b, d.cv, merged, ok)
    IN  [b |-> c.b, cv |-> c.cv, settings |-> merged, out |-> c.out,
         calls |-> <<Call("disconnect", None),
                     Call("provider_settings.update", SettingsVal(new_settings)),
                     Call("connect", None)>>]

-----------------------------------------------------------------------------
(* The state machine *)

Op(op, arg, ans, calls, out) ==
    [op |-> op, arg |-> arg, ans |-> ans, calls |-> calls, out |-> out]

Flag(ok) == [shape |-> IF ok THEN "ok" ELSE "fail", v |-> None]

\* the upstream's answer as the operation saw it: none when it did not ask
Asked(calls, ans) == IF calls = << >> THEN NoAnswer ELSE ans

\* The upstream answers only when it is called.  An operation is first run
\* against a failing upstream (Probe): the calls it then makes tell whether
\* it reaches the upstream at all, and only then are the answers enumerated.
Probe == [shape |-> "http_error", v |-> None]
Offered(probed, answers) == IF probed.calls = << >> THEN {NoAnswer} ELSE answers

Init ==
    /\ network_name \in NetworkNames
    /\ _beacon = Unset
    /\ _client_version = None
    /\ cached = [client_version |-> Miss, chain_id |-> Miss]
    /\ provider_settings = NoSettings
    /\ last = Op("__init__", None, NoAnswer, << >>, None)

Connect ==
    \E ok \in BOOLEAN :
        LET r == connect(_beacon, _client_version, provider_settings, ok) IN
        /\ _beacon' = r.b
        /\ _client_version' = r.cv
        /\ last' = Op("connect", None, Flag(ok), << >>, r.out)
        /\ UNCHANGED <<network_name, cached, provider_settings>>

Disconnect ==
    LET r == disconnect(_beacon, _client_version) IN
    /\ _beacon' = r.b
    /\ _client_version' = r.cv
    /\ last' = Op("disconnect", None, NoAnswer, << >>, r.out)
    /\ UNCHANGED <<network_name, cached, provider_settings>>

UpdateSettings ==
    \E new_settings \in SettingsDicts, ok \in BOOLEAN :
        LET r == update_settings(_beacon, _client_version, provider_settings,
                                 new_settings, ok) IN
        /\ _beacon' = r.b
        /\ _client_version' = r.cv
        /\ provider_settings' = r.settings
        /\ last' = Op("update_settings", SettingsVal(new_settings), Flag(ok), r.calls, r.out)
        /\ UNCHANGED <<network_name, cached>>

ClientVersion ==
    \E http_ok \in BOOLEAN :
        LET g == client_version_getter(_beacon, _client_version, http_ok)
            r == cached_property(cached.client_version, g)
        IN  /\ cached' = [cached EXCEPT !.client_version = r.entry]
            /\ _client_version' = IF r.ran THEN g.cv ELSE _client_version
            /\ last' = Op("client_version", None, Asked(r.calls, Flag(http_ok)), r.calls, r.out)
            /\ UNCHANGED <<network_name, _beacon, provider_settings>>

ChainId ==
    \E ans \in Offered(cached_property(cached.chain_id,
                                       chain_id_getter(network_name, _beacon, Probe)),
                       Answers(ChainIdVals)) :
        LET r == cached_property(cached.chain_id,
                                 chain_id_getter(network_name, _beacon, ans))
        IN  /\ cached' = [cached EXCEPT !.chain_id = r.entry]
            /\ last' = Op("chain_id", None, ans, r.calls, r.out)
            /\ UNCHANGED <<network_name, _beacon, _client_version, provider_settings>>

IsConnected ==
    \E health \in HealthStatuses \cup {0} :
        LET r == is_connected(_beacon, health) IN
        /\ last' = Op("is_connected", None,
                      Asked(r.calls, [shape |-> "status", v |-> PyInt(health)]),
                      r.calls, r.out)
        /\ UNCHANGED <<network_name, _beacon, _client_version, cached, provider_settings>>

GetBlock ==
    \E block_id \in BlockIDs :
      \E ans \in Offered(get_block(_beacon, block_id, Probe), Answers(BlockVals)) :
        LET r == get_block(_beacon, block_id, ans) IN
        /\ last' = Op("get_block", block_id, ans, r.calls, r.out)
        /\ UNCHANGED <<network_name, _beacon, _client_version, cached, provider_settings>>

GetBalance ==
    \E address \in Addresses :
      \E ans \in Offered(get_balance(_beacon, address, Probe), Answers(BalanceVals)) :
        LET r == get_balance(_beacon, address, ans) IN
        /\ last' = Op("get_balance", address, ans, r.calls, r.out)
        /\ UNCHANGED <<network_name, _beacon, _client_version, cached, provider_settings>>

Unsupported ==
    \E op \in UnsupportedOps :
        LET r == unsupported(op) IN
        /\ last' = Op(op, None, NoAnswer, r.calls, r.out)
        /\ UNCHANGED <<network_name, _beacon, _client_version, cached, provider_settings>>

Next ==
    \/ Connect
    \/ Disconnect
    \/ UpdateSettings
    \/ ClientVersion
    \/ ChainId
    \/ IsConnected
    \/ GetBlock
    \/ GetBalance
    \/ Unsupported

Spec == Init /\ [][Next]_vars

-----------------------------------------------------------------------------
(* Properties *)

Connected == _beacon.kind = "Beacon"
\* the last operation called fn on a collaborator
HasCall(fn) == \E i \in DOMAIN last.calls : last.calls[i].fn = fn
Fns(calls) == [i \in DOMAIN calls |-> calls[i].fn]
\* the settings dict an update_settings was called with
SettingsOf(arg) == IF arg.s = << >> THEN NoSettings ELSE [k \in {"uri"} |-> arg.s[1]]
\* what the connected client reports as its version
Reported(b) == IF VersionShape(b.s[1]) = "full" THEN VersionOf(b.s[1]) ELSE EmptyStr

\* C1 (as claimed): a get_block or get_balance on a provider without a client
\* handle raises ProviderNotConnectedError and makes no upstream call.
C1_DisconnectedQueryRaisesNotConnected ==
    (last.op \in {"get_block", "get_balance"} /\ ~Connected)
        => (last.out.kind = "ProviderNotConnectedError" /\ last.calls = << >>)

\* C2 (as claimed): is_connected is False on the freshly constructed
\* provider, and a read of it is True exactly when a handle exists, get_health was called on it and
\* answered 200; without a handle it is False and calls nothing.
C2_IsConnectedIffHealth200 ==
    /\ last.op = "__init__" =>
           \A h \in HealthStatuses \cup {0} :
               is_connected(_beacon, h) = Result(PyBool(FALSE), << >>)
    /\ last.op = "is_connected" =>
           /\ (last.out = PyBool(TRUE))
                  <=> (Connected /\ last.calls = <<Call("get_health", None)>>
                          /\ last.ans.v.n = 200)
           /\ ~Connected => (last.out = PyBool(FALSE) /\ last.calls = << >>)

\* C3: a chain_id read that runs the getter while _beacon is None (the
\* deposit-contract call fails with ProviderNotConnectedError) returns
\* the network's configured chain ID on a live network and raises
\* ProviderNotConnectedError on "adhoc", the local network and every "-fork".
C3_ChainIdFallback ==
    [][(last'.op = "chain_id" /\ cached.chain_id.kind = "miss" /\ _beacon = None)
          => /\ last'.calls = << >>
             /\ IF network_name \notin {NetAdhoc, NetLocal, NetMainFork}
                THEN last'.out = network_chain_id(network_name)
                ELSE last'.out = Raise("ProviderNotConnectedError", None)]_vars

C3_Witness ==
    /\ last.op = "chain_id" /\ _beacon = None /\ network_name = NetMain
    /\ last.out = network_chain_id(NetMain) /\ last.calls = << >>

\* C4: once a chain_id read has returned a value, no step changes the stored
\* value, and every later read returns it without calling upstream; a read
\* with nothing stored runs the getter, stores what it returns and stores
\* nothing when it raises.
C4_ChainIdCachedOnce ==
    [][/\ cached.chain_id.kind # "miss" => cached'.chain_id = cached.chain_id
       /\ last'.op = "chain_id" =>
              IF cached.chain_id.kind # "miss"
              THEN last'.out = cached.chain_id /\ last'.calls = << >>
              ELSE /\ Result(last'.out, last'.calls)
                          = chain_id_getter(network_name, _beacon, last'.ans)
                   /\ cached'.chain_id = IF IsRaise(last'.out) THEN Miss ELSE last'.out
       /\ last'.op # "chain_id" => cached'.chain_id = cached.chain_id]_vars

\* a read answered from the stored value: connected, yet no upstream call
C4_Witness ==
    /\ last.op = "chain_id" /\ Connected /\ last.calls = << >>
    /\ last.out = cached.chain_id

\* C5: update_settings disconnects, merges, then connects: the settings end
\* merged whatever the outcome; a failed connect propagates and leaves the
\* provider without a handle; a successful one holds a client for the merged
\* settings.
C5_UpdateSettingsSteps ==
    [][last'.op = "update_settings" =>
          /\ Fns(last'.calls) = <<"disconnect", "provider_settings.update", "connect">>
          /\ provider_settings' = dict_update(provider_settings, SettingsOf(last'.arg))
          /\ _client_version' = None
          /\ IF last'.ans.shape = "fail"
             THEN IsRaise(last'.out) /\ _beacon' = None
             ELSE /\ last'.out = None
                  /\ _beacon' = Beacon(IF Has(provider_settings', "uri")
                                       THEN provider_settings'["uri"]
                                       ELSE DefaultURI)]_vars

\* a failed reconnect: no handle, the new URI already in the settings
C5_Witness ==
    /\ last.op = "update_settings" /\ last.ans.shape = "fail"
    /\ IsRaise(last.out) /\ _beacon = None
    /\ last.arg.s = <<"u2">> /\ provider_settings = [k \in {"uri"} |-> "u2"]

\* C6: each unsupported operation raises APINotImplementedError, calls
\* nothing and changes neither the handle, the cached values nor the settings.
C6_UnsupportedAlwaysRaises ==
    [][last'.op \in UnsupportedOps =>
          /\ last'.out.kind = "APINotImplementedError"
          /\ last'.calls = << >>
          /\ UNCHANGED <<_beacon, _client_version, cached, provider_settings>>]_vars

C6_Witness ==
    last.op = "gas_price" /\ Connected /\ last.out.kind = "APINotImplementedError"

\* C7: on a connected provider get_block(n) and get_block(str(n)) make the
\* same calls and have the same outcome, and a str id that is not numeric is
\* what the upstream lookup is called with.
C7_NumericStringSameAsInt ==
    (last.op = "get_block" /\ Connected) =>
        /\ last.arg.kind = "int" =>
               get_block(_beacon, PyStr(StrOfInt(last.arg.n)), last.ans)
                   = Result(last.out, last.calls)
        /\ (last.arg.kind = "str" /\ IntParses(last.arg.s)
               /\ StrOfInt(IntOfStr(last.arg.s)) = last.arg.s) =>
               get_block(_beacon, PyInt(IntOfStr(last.arg.s)), last.ans)
                   = Result(last.out, last.calls)
        /\ (last.arg.kind = "str" /\ ~isnumeric(last.arg.s)) =>
               /\ last.calls # << >>
               /\ last.calls[1] = Call("get_block", last.arg)

\* the str "11" found no block: the error names the int 11
C7_Witness ==
    /\ last.op = "get_block" /\ Connected /\ last.arg = PyStr(<<"1", "1">>)
    /\ last.calls = <<Call("get_block", PyStr(<<"1", "1">>))>>
    /\ last.out = Raise("BlockNotFoundError", PyInt(11))

\* C8 (as claimed): on a connected provider, when the upstream block
\* response lacks "data" or "message" under it, get_block raises
\* BlockNotFoundError and the decoder is not called; the decoder is called,
\* with data.message, exactly when the response holds both.
C8_MissingMessageRaisesNotFound ==
    (last.op = "get_block" /\ Connected /\ HasCall("get_block")) =>
        /\ last.ans.shape \in {"empty", "data_none", "no_field"} =>
               /\ last.out.kind = "BlockNotFoundError"
               /\ ~HasCall("decode_block")
        /\ HasCall("decode_block") <=> last.ans.shape = "full"
        /\ HasCall("decode_block") =>
               /\ Len(last.calls) = 2
               /\ last.calls[2] = Call("decode_block", last.ans.v)
               /\ last.out = decode_block(last.ans.v)

\* C9 (as claimed): on a connected provider, when the upstream validator
\* response lacks "data" or "balance" under it, get_balance raises
\* ValidatorNotFoundError for the address; otherwise it returns data.balance
\* as upstream gave it.
C9_BalanceAsReturned ==
    (last.op = "get_balance" /\ Connected) =>
        /\ last.calls = <<Call("get_validator", last.arg)>>
        /\ last.ans.shape \in {"empty", "data_none", "no_field"} =>
               last.out = Raise("ValidatorNotFoundError", last.arg)
        /\ last.ans.shape = "full" => last.out = last.ans.v

\* C10 (as claimed): a client_version read on a connected provider that
\* returns a value returns what the connected client reports.
C10_ClientVersionOfCurrentClient ==
    (last.op = "client_version" /\ Connected /\ ~IsRaise(last.out))
        => last.out = Reported(_beacon)

=============================================================================
